---- MODULE Spec2Model ----
(***************************************************************************)
(* Model of run_migration_uat.py: the one-shot migration of four tables    *)
(* from SQL Server to PostgreSQL.  The script is a straight line of cells; *)
(* pc is the position in it.  An exception that no handler swallows ends    *)
(* the run (pc = "raised"); the target connection is then closed by the     *)
(* process exit and PostgreSQL discards the open transaction.  The run      *)
(* starts after both connections of lines 66-121 have been made.            *)
(*                                                                         *)
(* Text is modelled as a sequence of one-character strings so that         *)
(* lower(), endswith() and the `in` substring test act on characters.      *)
(***************************************************************************)
EXTENDS Integers, Sequences, FiniteSets, Bags, TLC

VARIABLES
    pc,                 \* position in the script
    idx,                \* index of the running for-loop
    src,                \* the SQL Server database (rows, columns, catalog)
    baseline_counts,    \* dict table -> row count (line 162)
    quality_issues,     \* list of findings (line 195)
    report,             \* what lines 244-248 printed
    table_shema,        \* dict table -> schema DataFrame (line 263)
    column_definitions, \* list built at lines 336-348
    pg_work,            \* target tables as the open transaction sees them
    pg_durable,         \* target tables as committed
    test_df,            \* DataFrame read at line 384
    data_tuples,        \* len(data_tuples) of line 393
    sent,               \* rows execute_values has inserted so far
    verified,           \* outcome of the comparison at line 416
    trace,              \* history: statements issued and errors met, in order
    txn                 \* history: the table being worked on, and the committed
                        \* target as it was when the work on it began

vars == << pc, idx, src, baseline_counts, quality_issues, report, table_shema,
           column_definitions, pg_work, pg_durable, test_df, data_tuples, sent,
           verified, trace, txn >>

----------------------------------------------------------------------------
(* Bounds of the model *)

\* distinct kinds of row in the whole source database
MaxKinds == 2
\* tables missing from INFORMATION_SCHEMA.COLUMNS (synonyms, dropped meanwhile)
MaxHidden == 1
\* rows each target table holds from an earlier run, when there was one
PreviousRows == 3
\* columns of a schema handed to the column-definition builder
MaxCols == 2

----------------------------------------------------------------------------
(* Text *)

UpperAlphabet == << "A","B","C","D","E","F","G","H","I","J","K","L","M",
                    "N","O","P","Q","R","S","T","U","V","W","X","Y","Z" >>
LowerAlphabet == << "a","b","c","d","e","f","g","h","i","j","k","l","m",
                    "n","o","p","q","r","s","t","u","v","w","x","y","z" >>

lower_char(c) ==
    IF \E k \in DOMAIN UpperAlphabet : UpperAlphabet[k] = c
    THEN LowerAlphabet[CHOOSE k \in DOMAIN UpperAlphabet : UpperAlphabet[k] = c]
    ELSE c

\* str.lower()
lower(s) == [k \in 1..Len(s) |-> lower_char(s[k])]

\* str.endswith(suffix)
endswith(s, suffix) ==
    /\ Len(s) >= Len(suffix)
    /\ SubSeq(s, Len(s) - Len(suffix) + 1, Len(s)) = suffix

\* `sub in s` on strings
contains(s, sub) ==
    \E k \in 1..(Len(s) - Len(sub) + 1) : SubSeq(s, k, k + Len(sub) - 1) = sub

\* x in list
member(x, list) == \E k \in 1..Len(list) : list[k] = x

\* a nullable value: NULL, or one value
NULL == << >>
Some(v) == << v >>

----------------------------------------------------------------------------
(* Names *)

Categories == << "C","a","t","e","g","o","r","i","e","s" >>
Suppliers  == << "S","u","p","p","l","i","e","r","s" >>
Customers  == << "C","u","s","t","o","m","e","r","s" >>
Products   == << "P","r","o","d","u","c","t","s" >>

\* the declared order with the dependent table first
tables_to_migrate_dependent_first == << Products, Categories, Suppliers, Customers >>

tables_to_migrate == << Categories, Suppliers, Customers, Products >>

test_table == Customers

remaining_tables == SelectSeq(tables_to_migrate, LAMBDA t : t # Customers)

Tables == { tables_to_migrate[k] : k \in 1..Len(tables_to_migrate) }

PgTables == { lower(t) : t \in Tables }

s_id  == << "i","d" >>
s_int == << "i","n","t" >>
IsActive == << "I","s","A","c","t","i","v","e" >>

t_bigint        == << "b","i","g","i","n","t" >>
t_smallint      == << "s","m","a","l","l","i","n","t" >>
t_tinyint       == << "t","i","n","y","i","n","t" >>
t_bit           == << "b","i","t" >>
t_decimal       == << "d","e","c","i","m","a","l" >>
t_numeric       == << "n","u","m","e","r","i","c" >>
t_money         == << "m","o","n","e","y" >>
t_smallmoney    == << "s","m","a","l","l","m","o","n","e","y" >>
t_float         == << "f","l","o","a","t" >>
t_real          == << "r","e","a","l" >>
t_datetime      == << "d","a","t","e","t","i","m","e" >>
t_datetime2     == << "d","a","t","e","t","i","m","e","2" >>
t_smalldatetime == << "s","m","a","l","l","d","a","t","e","t","i","m","e" >>
t_date          == << "d","a","t","e" >>
t_time          == << "t","i","m","e" >>
t_char          == << "c","h","a","r" >>
t_varchar       == << "v","a","r","c","h","a","r" >>
t_nchar         == << "n","c","h","a","r" >>
t_nvarchar      == << "n","v","a","r","c","h","a","r" >>
t_text          == << "t","e","x","t" >>
t_ntext         == << "n","t","e","x","t" >>

type_mapping ==
    (s_int :> "INTEGER") @@ (t_bigint :> "BIGINT") @@ (t_smallint :> "SMALLINT") @@
    (t_tinyint :> "SMALLINT") @@ (t_bit :> "BOOLEAN") @@ (t_decimal :> "NUMERIC") @@
    (t_numeric :> "NUMERIC") @@ (t_money :> "NUMERIC(19,4)") @@
    (t_smallmoney :> "NUMERIC(10,4)") @@ (t_float :> "DOUBLE PRECISION") @@
    (t_real :> "REAL") @@ (t_datetime :> "TIMESTAMP") @@ (t_datetime2 :> "TIMESTAMP") @@
    (t_smalldatetime :> "TIMESTAMP") @@ (t_date :> "DATE") @@ (t_time :> "TIME") @@
    (t_char :> "CHAR") @@ (t_varchar :> "VARCHAR") @@ (t_nchar :> "CHAR") @@
    (t_nvarchar :> "VARCHAR") @@ (t_text :> "TEXT") @@ (t_ntext :> "TEXT")

\* dict.get(key, default)
dict_get(d, key, default) == IF key \in DOMAIN d THEN d[key] ELSE default

page_size == 1000


----------------------------------------------------------------------------
(* The source database *)

c_CategoryID == << "C","a","t","e","g","o","r","y","I","D" >>
c_CategoryName == << "C","a","t","e","g","o","r","y","N","a","m","e" >>
c_SupplierID == << "S","u","p","p","l","i","e","r","I","D" >>
c_CustomerID == << "C","u","s","t","o","m","e","r","I","D" >>
c_CustomerName == << "C","u","s","t","o","m","e","r","N","a","m","e" >>
c_email == << "e","m","a","i","l" >>
c_ProductID == << "P","r","o","d","u","c","t","I","D" >>
c_UnitPrice == << "U","n","i","t","P","r","i","c","e" >>
c_StockQuantity == << "S","t","o","c","k","Q","u","a","n","t","i","t","y" >>
c_ShapeID == << "S","h","a","p","e","I","D" >>
c_Paid == << "P","a","i","d" >>

\* one row of INFORMATION_SCHEMA.COLUMNS, as the DataFrame of line 276 holds it
column(name, type) == [COLUMN_NAME |-> name, DATA_TYPE |-> type]

\* the columns of the source tables; Customers with or without its bit column
SourceColumns(with_is_active) ==
    (Categories :> << column(c_CategoryID, s_int), column(c_CategoryName, t_nvarchar) >>) @@
    (Suppliers  :> << column(c_SupplierID, s_int) >>) @@
    (Customers  :> << column(c_CustomerID, s_int), column(c_CustomerName, t_nvarchar),
                      column(c_email, t_varchar) >>
                   \o (IF with_is_active THEN << column(IsActive, t_bit) >> ELSE << >>)) @@
    (Products   :> << column(c_ProductID, s_int), column(c_UnitPrice, t_money),
                      column(c_StockQuantity, s_int), column(c_SupplierID, s_int) >>)

e_valid     == << "a","@","b" >>
e_invalid   == << "@","I","n","v","a","l","i","d" >>
e_x_invalid == << "x","@","I","n","v","a","l","i","d" >>
n_Al        == << "A","l" >>

CustomerKinds ==
    { [CustomerName |-> Some(n_Al), email |-> Some(e_valid)],
      [CustomerName |-> NULL,       email |-> Some(e_valid)],
      [CustomerName |-> Some(n_Al), email |-> Some(e_invalid)],
      [CustomerName |-> Some(n_Al), email |-> Some(e_x_invalid)],
      [CustomerName |-> Some(n_Al), email |-> NULL] }

ProductKinds ==
    { [UnitPrice |-> Some(10),  StockQuantity |-> Some(5),  SupplierID |-> Some(1)],
      [UnitPrice |-> Some(-1),  StockQuantity |-> Some(5),  SupplierID |-> Some(1)],
      [UnitPrice |-> Some(10),  StockQuantity |-> Some(-2), SupplierID |-> Some(1)],
      [UnitPrice |-> Some(10),  StockQuantity |-> Some(5),  SupplierID |-> Some(9)],
      [UnitPrice |-> NULL,      StockQuantity |-> NULL,     SupplierID |-> NULL] }

SupplierKinds == { [SupplierID |-> 1] }

CategoryKinds == { [CategoryID |-> 1] }

\* a table is a bag of rows: every bag over at most n of the kinds
BagsOver(kinds, mults, n) ==
    UNION { [K -> mults] : K \in { S \in SUBSET kinds : Cardinality(S) <= n } }

\* numbers of identical rows: one row, or one more than fills a page of the load
Multiplicities == { 1, page_size + 1 }

KindsOf(bag) == Cardinality(DOMAIN bag)

----------------------------------------------------------------------------
(* What SQL Server answers *)

\* SELECT COUNT(*) FROM table WHERE ...: the rows of the bag that match, counted
count_where(bag, matching) ==
    BagCardinality([r \in matching \cap DOMAIN bag |-> bag[r]])

\* s LIKE pattern, with % and _ as wildcards
RECURSIVE like(_, _)
like(s, pattern) ==
    IF pattern = << >> THEN s = << >>
    ELSE IF Head(pattern) = "%"
         THEN like(s, Tail(pattern)) \/ (s # << >> /\ like(Tail(s), pattern))
         ELSE /\ s # << >>
              /\ (Head(pattern) = "_" \/ Head(pattern) = Head(s))
              /\ like(Tail(s), Tail(pattern))

\* a comparison with NULL is not true
is_null(v) == v = NULL
less_than(v, n) == v # NULL /\ v[1] < n

\* the statements the script sends; SQL Server parses the verb before it runs them
query(verb, table) == [verb |-> verb, table |-> table]
sql_server_parses(q) == q.verb = "SELECT"

\* SQL Server resolves a table name without regard to case
source_table(name) == CHOOSE t \in Tables : lower(t) = lower(name)

\* SELECT COUNT(*) AS total_rows FROM {table}
row_count_query(s, table) == BagCardinality(s.rows[source_table(table)])

\* INFORMATION_SCHEMA.COLUMNS WHERE TABLE_NAME = ? ORDER BY ORDINAL_POSITION:
\* no row, and no error, for a table the catalog does not list
schema_query(s, table) == IF table \in s.hidden THEN << >> ELSE s.columns[table]

----------------------------------------------------------------------------
(* The quality checks, lines 195-248 *)

Checks == 1..5

\* the count each check's query returns
check_query(s, k) ==
    LET customers == s.rows[Customers]
        products  == s.rows[Products]
        suppliers == s.rows[Suppliers] IN
    CASE k = 1 -> count_where(customers,
                              { r \in DOMAIN customers : is_null(r.CustomerName) })
      [] k = 2 -> count_where(customers,
                              { r \in DOMAIN customers :
                                  r.email # NULL /\ like(r.email[1], e_invalid) })
      [] k = 3 -> count_where(products,
                              { r \in DOMAIN products : less_than(r.UnitPrice, 0) })
      [] k = 4 -> count_where(products,
                              { r \in DOMAIN products : less_than(r.StockQuantity, 0) })
      [] k = 5 -> count_where(products,
                              { r \in DOMAIN products :
                                  ~ \E sup \in DOMAIN suppliers :
                                        /\ r.SupplierID # NULL
                                        /\ sup.SupplierID = r.SupplierID[1] })

check_text(k) ==
    CASE k = 1 -> "customers with Null names..."
      [] k = 2 -> "emails with invalid email formats..."
      [] k = 3 -> "prices contain negative prices..."
      [] k = 4 -> "products contain negative values..."
      [] k = 5 -> "products with orphaned foreign keys..."

DigitChars == << "0","1","2","3","4","5","6","7","8","9" >>
digit(d) == DigitChars[d + 1]

RECURSIVE format_int(_)
format_int(n) == IF n < 10 THEN << digit(n) >> ELSE format_int(n \div 10) \o << digit(n % 10) >>

\* the format specification {n:,}
RECURSIVE format_thousands(_)
format_thousands(n) ==
    IF n < 1000 THEN format_int(n)
    ELSE format_thousands(n \div 1000) \o << "," >>
         \o << digit((n % 1000) \div 100), digit((n \div 10) % 10), digit(n % 10) >>

\* f" > {count:,} <text>"
finding(k, count) == [count |-> format_thousands(count), text |-> check_text(k)]

\* a finding for every count, zero included
report_finding_always(issues, k, count) == Append(issues, finding(k, count))

\* if count > 0: quality_issues.append(...)
report_finding(issues, k, count) ==
    IF count > 0 THEN Append(issues, finding(k, count)) ELSE issues


----------------------------------------------------------------------------
(* The column definitions of CREATE TABLE, lines 336-350 *)

column_definition(index, row) ==
    LET col_name  == lower(row.COLUMN_NAME)
        sql_type  == row.DATA_TYPE
        base_type == lower(sql_type)
        pg_type   == dict_get(type_mapping, base_type, "TEXT")
    IN  IF index = 0 /\ endswith(col_name, s_id) /\ contains(lower(sql_type), s_int)
        THEN [name |-> col_name, type |-> "SERIAL PRIMARY KEY"]
        ELSE [name |-> col_name, type |-> pg_type]

\* for idx, row in schema.iterrows(): column_definitions.append(...)
build_column_definitions(schema) ==
    [k \in 1..Len(schema) |-> column_definition(k - 1, schema[k])]

----------------------------------------------------------------------------
(* The target database *)

Absent == [exists |-> FALSE, cols |-> << >>, rows |-> 0]

\* DROP TABLE IF EXISTS {pg_table} CASCADE
pg_drop(db, pg_table) == [db EXCEPT ![pg_table] = Absent]

\* CREATE TABLE {pg_table} ({column_string})
pg_create(db, pg_table, cols) ==
    [db EXCEPT ![pg_table] = [exists |-> TRUE, cols |-> cols, rows |-> 0]]

\* INSERT INTO {pg_table} ({column_string}) VALUES ...: one page of rows
pg_insert(db, pg_table, n) == [db EXCEPT ![pg_table].rows = @ + n]

\* PostgreSQL takes the INSERT when the table exists and has the named columns
insert_accepted(tbl, columns) ==
    /\ tbl.exists
    /\ \A k \in 1..Len(columns) : \E j \in 1..Len(tbl.cols) : tbl.cols[j].name = columns[k]

\* a connection with autocommit on: every statement is durable at once
durable_after_statement_autocommit(work, durable) == work

\* the connection of lines 97-103 leaves autocommit off: nothing a statement does
\* is durable before commit()
durable_after_statement(work, durable) == durable

\* a commit() left out: the transaction stays open
pg_commit_left_out(work, durable) == durable

\* pg_conn.commit(): what the transaction did becomes durable
pg_commit(work, durable) == work

\* pg_conn.rollback(), and the end of the session: the transaction is discarded
pg_rollback(work, durable) == durable

\* the target as an earlier run of the script left it
PreviousTarget ==
    [n \in PgTables |->
        [exists |-> TRUE,
         cols   |-> build_column_definitions(SourceColumns(TRUE)[source_table(n)]),
         rows   |-> PreviousRows]]

----------------------------------------------------------------------------
(* The run *)

event(op, table) == [op |-> op, table |-> table]

Min(a, b) == IF a <= b THEN a ELSE b

Terminal == { "done", "raised", "interrupted" }

HiddenSets == { H \in SUBSET Tables : Cardinality(H) <= MaxHidden }

\* a database whose rows all pass the checks
PlainRows(rows) ==
    /\ \A r \in DOMAIN rows[Customers] : r.CustomerName # NULL /\ r.email = Some(e_valid)
    /\ \A r \in DOMAIN rows[Products] :
          /\ r.UnitPrice = Some(10) /\ r.StockQuantity = Some(5)
          /\ r.SupplierID = Some(1)

\* the setting the script was written for: a bit column in Customers, every table
\* listed in the catalog, an empty target
PlainSetting(with_is_active, hidden, rerun) ==
    with_is_active /\ hidden = {} /\ ~ rerun

\* the databases the run starts from: the rows vary in the plain setting, and the
\* setting varies over plain rows
Init ==
    /\ \E c \in BagsOver(CustomerKinds, Multiplicities, MaxKinds),
          p \in BagsOver(ProductKinds, {1}, MaxKinds),
          with_is_active \in BOOLEAN,
          hidden \in HiddenSets,
          rerun \in BOOLEAN :
         LET rows == (Categories :> SetToBag(CategoryKinds)) @@
                     (Suppliers :> SetToBag(SupplierKinds)) @@
                     (Customers :> c) @@ (Products :> p) IN
            /\ KindsOf(c) + KindsOf(p) <= MaxKinds
            /\ PlainRows(rows) \/ PlainSetting(with_is_active, hidden, rerun)
            /\ src = [rows    |-> rows,
                      columns |-> SourceColumns(with_is_active),
                      hidden  |-> hidden]
            /\ pg_durable = IF rerun THEN PreviousTarget ELSE [n \in PgTables |-> Absent]
            /\ pg_work = pg_durable
    /\ pc = "test_query"
    /\ idx = 1
    /\ baseline_counts = << >>
    /\ quality_issues = << >>
    /\ report = "unset"
    /\ table_shema = << >>
    /\ column_definitions = << >>
    /\ test_df = [columns |-> << >>, rows |-> 0]
    /\ data_tuples = 0
    /\ sent = 0
    /\ verified = "unset"
    /\ trace = << >>
    /\ txn = [kind |-> "none", table |-> << >>, before |-> pg_durable]

\* an exception no handler swallows: the script ends and its session with it
Raise(op, table) ==
    /\ pc' = "raised"
    /\ pg_work' = pg_rollback(pg_work, pg_durable)
    /\ trace' = Append(trace, event(op, table))

\* lines 155-159
TestQuery ==
    /\ pc = "test_query"
    /\ \E ok \in BOOLEAN :
        IF ok
        THEN /\ pc' = "baseline"
             /\ UNCHANGED << pg_work, trace >>
        ELSE Raise("count_error", Products)
    /\ UNCHANGED << txn, idx, src, baseline_counts, quality_issues, report, table_shema,
                    column_definitions, pg_durable, test_df, data_tuples, sent, verified >>

\* a handler that swallows the exception as the one of line 282 does
baseline_handler_pass == "pass"

\* lines 183-185: what the handler of the baseline loop does with an exception
baseline_handler == "raise"

\* lines 164-185, one iteration
BaselineCount ==
    /\ pc = "baseline"
    /\ LET table == tables_to_migrate[idx] IN
       \E ok \in BOOLEAN :
        IF ok
        THEN /\ baseline_counts' = (table :> row_count_query(src, table)) @@ baseline_counts
             /\ IF idx = Len(tables_to_migrate)
                THEN pc' = "quality" /\ idx' = 1
                ELSE pc' = pc /\ idx' = idx + 1
             /\ trace' = Append(trace, event("count", table))
             /\ UNCHANGED pg_work
        ELSE /\ IF baseline_handler = "raise"
                THEN Raise("count_error", table) /\ UNCHANGED idx
                ELSE /\ pc' = "quality" /\ idx' = 1
                     /\ trace' = Append(trace, event("count_error", table))
                     /\ UNCHANGED pg_work
             /\ UNCHANGED baseline_counts
    /\ UNCHANGED << txn, src, quality_issues, report, table_shema, column_definitions,
                    pg_durable, test_df, data_tuples, sent, verified >>

\* lines 197-242, one check; any error leaves the try block and is raised again
QualityCheck ==
    /\ pc = "quality"
    /\ \E ok \in BOOLEAN :
        IF ok
        THEN /\ quality_issues' = report_finding(quality_issues, idx, check_query(src, idx))
             /\ IF idx = 5
                THEN pc' = "quality_report" /\ idx' = 1
                ELSE pc' = pc /\ idx' = idx + 1
             /\ trace' = Append(trace, event("check", << >>))
             /\ UNCHANGED pg_work
        ELSE /\ Raise("check_error", << >>)
             /\ UNCHANGED << quality_issues, idx >>
    /\ UNCHANGED << txn, src, baseline_counts, report, table_shema, column_definitions,
                    pg_durable, test_df, data_tuples, sent, verified >>

\* lines 244-248
QualityReport ==
    /\ pc = "quality_report"
    /\ report' = IF quality_issues # << >> THEN "issues" ELSE "no issues"
    /\ pc' = "inspect"
    /\ UNCHANGED << txn, idx, src, baseline_counts, quality_issues, table_shema,
                    column_definitions, pg_work, pg_durable, test_df, data_tuples,
                    sent, verified, trace >>

\* lines 265-283, one iteration; `except Exception: pass` ends the loop silently
InspectSchema ==
    /\ pc = "inspect"
    /\ LET table == tables_to_migrate[idx] IN
       \E ok \in BOOLEAN :
        IF ok
        THEN /\ table_shema' = (table :> schema_query(src, table)) @@ table_shema
             /\ IF idx = Len(tables_to_migrate)
                THEN pc' = "create" /\ idx' = 1
                ELSE pc' = pc /\ idx' = idx + 1
             /\ trace' = Append(trace, event("inspect", table))
        ELSE /\ pc' = "create" /\ idx' = 1
             /\ trace' = Append(trace, event("inspect_error", table))
             /\ UNCHANGED table_shema
    /\ UNCHANGED << txn, src, baseline_counts, quality_issues, report, column_definitions,
                    pg_work, pg_durable, test_df, data_tuples, sent, verified >>


\* lines 331-333: schema = table_shema[table]; a KeyError is caught at line 365,
\* which prints it and lets the script go on with the next cell
CreateLookup ==
    /\ pc = "create"
    /\ LET table == tables_to_migrate[idx] IN
        IF table \in DOMAIN table_shema
        THEN /\ pc' = "create_drop"
             /\ txn' = [kind |-> "materialize", table |-> table, before |-> pg_durable]
             /\ UNCHANGED trace
        ELSE /\ pc' = "test_extract"
             /\ trace' = Append(trace, event("lookup_error", table))
             /\ UNCHANGED txn
    /\ UNCHANGED << idx, src, baseline_counts, quality_issues, report, table_shema,
                    column_definitions, pg_work, pg_durable, test_df, data_tuples,
                    sent, verified >>

\* line 335; psycopg2.Error is handled at lines 360-363: rollback, raise
CreateDrop ==
    /\ pc = "create_drop"
    /\ LET table    == tables_to_migrate[idx]
           pg_table == lower(table) IN
       \E ok \in BOOLEAN :
        IF ok
        THEN /\ pg_work' = pg_drop(pg_work, pg_table)
             /\ pg_durable' = durable_after_statement(pg_work', pg_durable)
             /\ trace' = Append(trace, event("drop", table))
             /\ pc' = "create_build"
        ELSE /\ Raise("drop_error", table)
             /\ UNCHANGED pg_durable
    /\ UNCHANGED << txn, idx, src, baseline_counts, quality_issues, report, table_shema,
                    column_definitions, test_df, data_tuples, sent, verified >>

\* lines 336-350
CreateBuild ==
    /\ pc = "create_build"
    /\ column_definitions' = build_column_definitions(table_shema[tables_to_migrate[idx]])
    /\ pc' = "create_execute"
    /\ UNCHANGED << txn, idx, src, baseline_counts, quality_issues, report, table_shema,
                    pg_work, pg_durable, test_df, data_tuples, sent, verified, trace >>

\* lines 351-355
CreateExecute ==
    /\ pc = "create_execute"
    /\ LET table    == tables_to_migrate[idx]
           pg_table == lower(table) IN
       \E ok \in BOOLEAN :
        IF ok
        THEN /\ pg_work' = pg_create(pg_work, pg_table, column_definitions)
             /\ pg_durable' = durable_after_statement(pg_work', pg_durable)
             /\ trace' = Append(trace, event("create", table))
             /\ pc' = "create_commit"
        ELSE /\ Raise("create_error", table)
             /\ UNCHANGED pg_durable
    /\ UNCHANGED << txn, idx, src, baseline_counts, quality_issues, report, table_shema,
                    column_definitions, test_df, data_tuples, sent, verified >>

\* line 356, and the step to the next table
CreateCommit ==
    /\ pc = "create_commit"
    /\ LET table == tables_to_migrate[idx] IN
       \E ok \in BOOLEAN :
        IF ok
        THEN /\ pg_durable' = pg_commit(pg_work, pg_durable)
             /\ trace' = Append(trace, event("commit", table))
             /\ IF idx = Len(tables_to_migrate)
                THEN pc' = "test_extract" /\ idx' = 1
                ELSE pc' = "create" /\ idx' = idx + 1
             /\ UNCHANGED pg_work
        ELSE /\ Raise("commit_error", table)
             /\ UNCHANGED << pg_durable, idx >>
    /\ UNCHANGED << txn, src, baseline_counts, quality_issues, report, table_shema,
                    column_definitions, test_df, data_tuples, sent, verified >>

\* lines 382-384; every exception of the cell is handled at lines 425-427
TestExtract ==
    /\ pc = "test_extract"
    /\ txn' = [kind |-> "load", table |-> test_table, before |-> pg_durable]
    /\ LET pg_table      == lower(test_table)
           extract_query == query("SELECT", pg_table) IN
       \E ok \in BOOLEAN :
        IF ok /\ sql_server_parses(extract_query)
        THEN /\ test_df' =
                  [columns |-> [k \in 1..Len(src.columns[source_table(pg_table)]) |->
                                   src.columns[source_table(pg_table)][k].COLUMN_NAME],
                   rows    |-> row_count_query(src, pg_table)]
             /\ trace' = Append(trace, event("extract", test_table))
             /\ pc' = "test_transform"
             /\ UNCHANGED pg_work
        ELSE /\ Raise("extract_error", test_table)
             /\ UNCHANGED test_df
    /\ UNCHANGED << idx, src, baseline_counts, quality_issues, report, table_shema,
                    column_definitions, pg_durable, data_tuples, sent, verified >>

\* lines 386-403: without an IsActive column the cell does nothing more
TestTransform ==
    /\ pc = "test_transform"
    /\ IF member(IsActive, test_df.columns)
       THEN \E ok \in BOOLEAN :
             IF ok
             THEN /\ data_tuples' = test_df.rows
                  /\ sent' = 0
                  /\ pc' = "test_load"
                  /\ UNCHANGED << pg_work, trace, idx >>
             ELSE /\ Raise("transform_error", test_table)
                  /\ UNCHANGED << data_tuples, sent, idx >>
       ELSE /\ pc' = "remaining"
            /\ idx' = 1
            /\ UNCHANGED << data_tuples, sent, pg_work, trace >>
    /\ UNCHANGED << txn, src, baseline_counts, quality_issues, report, table_shema,
                    column_definitions, pg_durable, test_df, verified >>

\* line 405: execute_values sends one INSERT for each page of page_size rows
TestInsertPage ==
    /\ pc = "test_load"
    /\ sent < data_tuples
    /\ LET pg_table == lower(test_table)
           columns  == [k \in 1..Len(test_df.columns) |-> lower(test_df.columns[k])]
           n        == Min(page_size, data_tuples - sent) IN
       \E ok \in BOOLEAN :
        IF ok /\ insert_accepted(pg_work[pg_table], columns)
        THEN /\ pg_work' = pg_insert(pg_work, pg_table, n)
             /\ pg_durable' = durable_after_statement(pg_work', pg_durable)
             /\ sent' = sent + n
             /\ trace' = Append(trace, event("insert", test_table))
             /\ UNCHANGED pc
        ELSE /\ Raise("insert_error", test_table)
             /\ UNCHANGED << sent, pg_durable >>
    /\ UNCHANGED << txn, idx, src, baseline_counts, quality_issues, report, table_shema,
                    column_definitions, test_df, data_tuples, verified >>

\* line 406
TestCommit ==
    /\ pc = "test_load"
    /\ sent = data_tuples
    /\ \E ok \in BOOLEAN :
        IF ok
        THEN /\ pg_durable' = pg_commit(pg_work, pg_durable)
             /\ trace' = Append(trace, event("commit", test_table))
             /\ pc' = "test_verify"
             /\ UNCHANGED pg_work
        ELSE /\ Raise("commit_error", test_table)
             /\ UNCHANGED pg_durable
    /\ UNCHANGED << txn, idx, src, baseline_counts, quality_issues, report, table_shema,
                    column_definitions, test_df, data_tuples, sent, verified >>

\* lines 410-421
TestVerify ==
    /\ pc = "test_verify"
    /\ LET pg_table == lower(test_table) IN
       \E ok \in BOOLEAN :
        IF ok /\ pg_work[pg_table].exists /\ test_table \in DOMAIN baseline_counts
        THEN LET pg_count  == pg_work[pg_table].rows
                 sql_count == baseline_counts[test_table] IN
             /\ verified' = IF pg_count = sql_count THEN "passed" ELSE "failed"
             /\ pc' = "remaining"
             /\ idx' = 1
             /\ UNCHANGED << pg_work, trace >>
        ELSE /\ Raise("verify_error", test_table)
             /\ UNCHANGED << verified, idx >>
    /\ UNCHANGED << txn, src, baseline_counts, quality_issues, report, table_shema,
                    column_definitions, pg_durable, test_df, data_tuples, sent >>

\* lines 441-458, one iteration: the statement is read and prepared, never loaded;
\* `except Exception: pass` swallows whatever the read raises
MigrateRemaining ==
    /\ pc = "remaining"
    /\ LET table         == remaining_tables[idx]
           extract_query == query("SLEECT", table) IN
       \E ok \in BOOLEAN :
        /\ IF sql_server_parses(extract_query)
           THEN IF ok
                THEN /\ data_tuples' = row_count_query(src, table)
                     /\ trace' = Append(trace, event("extract", table))
                ELSE /\ trace' = Append(trace, event("extract_error", table))
                     /\ UNCHANGED data_tuples
           ELSE /\ trace' = Append(trace, event("extract_rejected", table))
                /\ UNCHANGED data_tuples
        /\ IF idx = Len(remaining_tables)
           THEN pc' = "done" /\ idx' = idx
           ELSE pc' = pc /\ idx' = idx + 1
    /\ UNCHANGED << txn, src, baseline_counts, quality_issues, report, table_shema,
                    column_definitions, pg_work, pg_durable, test_df, sent, verified >>

\* KeyboardInterrupt: no handler of the script catches it; the session ends
Interrupt ==
    /\ pc \notin Terminal
    /\ pc' = "interrupted"
    /\ pg_work' = pg_rollback(pg_work, pg_durable)
    /\ trace' = Append(trace, event("interrupt", << >>))
    /\ UNCHANGED << txn, idx, src, baseline_counts, quality_issues, report, table_shema,
                    column_definitions, pg_durable, test_df, data_tuples, sent, verified >>

Next ==
    \/ TestQuery
    \/ BaselineCount
    \/ QualityCheck
    \/ QualityReport
    \/ InspectSchema
    \/ CreateLookup
    \/ CreateDrop
    \/ CreateBuild
    \/ CreateExecute
    \/ CreateCommit
    \/ TestExtract
    \/ TestTransform
    \/ TestInsertPage
    \/ TestCommit
    \/ TestVerify
    \/ MigrateRemaining
    \/ Interrupt

Spec == Init /\ [][Next]_vars


----------------------------------------------------------------------------
(* The column-definition builder on its own: any schema of at most MaxCols  *)
(* columns, as the catalog of a source database may list it                 *)

t_INT   == << "I","N","T" >>
t_point == << "p","o","i","n","t" >>
t_xml   == << "x","m","l" >>

DDLNames == { c_CustomerID, c_CustomerName, c_ShapeID, c_Paid }
DDLTypes == { s_int, t_INT, t_bigint, t_nvarchar, t_bit, t_point, t_xml }

DDLColumns == { column(n, t) : n \in DDLNames, t \in DDLTypes }

DDLSchemas == UNION { [1..n -> DDLColumns] : n \in 0..MaxCols }

InitDDL ==
    /\ \E schema \in DDLSchemas : table_shema = (Categories :> schema)
    /\ src = [rows    |-> [t \in Tables |-> EmptyBag],
              columns |-> SourceColumns(TRUE),
              hidden  |-> {}]
    /\ pg_durable = [n \in PgTables |-> Absent]
    /\ pg_work = pg_durable
    /\ pc = "create_build"
    /\ idx = 1
    /\ baseline_counts = [t \in Tables |-> 0]
    /\ quality_issues = << >>
    /\ report = "no issues"
    /\ column_definitions = << >>
    /\ test_df = [columns |-> << >>, rows |-> 0]
    /\ data_tuples = 0
    /\ sent = 0
    /\ verified = "unset"
    /\ trace = << >>
    /\ txn = [kind |-> "materialize", table |-> Categories, before |-> pg_durable]

NextDDL == CreateBuild

SpecDDL == InitDDL /\ [][NextDDL]_vars


----------------------------------------------------------------------------
(* Vocabulary of the properties *)

StatementOps   == { "drop", "create", "insert" }
MaterializeOps == { "drop", "create", "drop_error", "create_error" }
MigrateOps     == { "extract", "extract_error", "extract_rejected", "insert", "insert_error" }
MaterializeFailures == { "lookup_error", "drop_error", "create_error" }
MigrateFailures     == { "extract_error", "extract_rejected", "transform_error",
                         "insert_error" }
\* failures that come from outside the script
EnvironmentErrors ==
    { "count_error", "check_error", "inspect_error", "lookup_error", "drop_error",
      "create_error", "commit_error", "extract_error", "transform_error",
      "insert_error", "verify_error", "interrupt" }

HasEvent(op, table) == \E k \in 1..Len(trace) : trace[k] = event(op, table)
HasOp(op) == \E k \in 1..Len(trace) : trace[k].op = op
LastOp == IF trace = << >> THEN "none" ELSE trace[Len(trace)].op

\* some statement has changed the target
Mutated == \E k \in 1..Len(trace) : trace[k].op \in StatementOps

\* lines 128-131: Products depends on Categories and on Suppliers
Depends == { << Products, Categories >>, << Products, Suppliers >> }

Position(table) == CHOOSE k \in 1..Len(tables_to_migrate) : tables_to_migrate[k] = table

SourceRows(table) == BagCardinality(src.rows[table])

----------------------------------------------------------------------------
\* C1: when no extract, transform or load error occurs, a run that ends has written
\* to every table of the migration order exactly its N source rows, and the
\* verification has passed.
C1_RoundTripCount ==
    (pc = "done" /\ \A k \in 1..Len(trace) : trace[k].op \notin EnvironmentErrors)
    => /\ \A t \in Tables :
            /\ pg_durable[lower(t)].exists
            /\ pg_durable[lower(t)].rows = SourceRows(t)
       /\ verified = "passed"

----------------------------------------------------------------------------
\* C2: in every state, the committed row count of each target table is what it was
\* before the load of that table or that plus all the rows of the load, never a
\* part of them; and after a failure of the extract, transform or load step the
\* committed target is what it was before the attempt.
C2_LoadAtomicity ==
    /\ \A n \in PgTables :
        LET before == txn.before[n].rows IN
        IF txn.kind = "load"
        THEN pg_durable[n].rows \in
                { before, before + (IF n = lower(txn.table) THEN data_tuples ELSE 0) }
        ELSE pg_durable[n].rows \in { before, 0 }
    /\ (txn.kind = "load" /\ pc = "raised" /\ LastOp \in MigrateFailures \cup { "commit_error" })
       => pg_durable = txn.before /\ pg_work = pg_durable
    /\ (txn.kind = "load" /\ pc = "interrupted")
       => pg_work = pg_durable

\* a load of more than one page failed after its first page went in
C2_Witness ==
    /\ pc = "raised"
    /\ LastOp = "insert_error"
    /\ HasEvent("insert", test_table)
    /\ data_tuples > page_size
    /\ txn.before[lower(test_table)].rows = PreviousRows

----------------------------------------------------------------------------
\* C3: after a failure of the materialization or migration of a table T, no table
\* that depends on T is attempted, and every pending table that does not depend on
\* T is still attempted before the run ends.
C3_FailurePolicy ==
    /\ \A i, j \in 1..Len(trace) :
        (/\ i < j
         /\ trace[i].op \in MaterializeFailures \cup MigrateFailures
         /\ << trace[j].table, trace[i].table >> \in Depends)
        => trace[j].op \notin MaterializeOps \cup MigrateOps
    /\ pc \in { "done", "raised" }
       => \A i \in 1..Len(trace) :
            trace[i].op \in MaterializeFailures
            => \A u \in Tables :
                 (/\ Position(u) > Position(trace[i].table)
                  /\ << u, trace[i].table >> \notin Depends)
                 => \E j \in 1..Len(trace) :
                        j > i /\ trace[j].table = u /\ trace[j].op \in MaterializeOps

----------------------------------------------------------------------------
\* C4: a table is materialized only after each table it depends on has been, and
\* its migration is taken up only after that of each table it depends on; the
\* tables are created in the order of the declared list.
C4_DependencyOrder ==
    /\ \A d \in Depends : \A ops \in { MaterializeOps, MigrateOps } :
        \A j \in 1..Len(trace) :
            (trace[j].table = d[1] /\ trace[j].op \in ops)
            => \E i \in 1..(j - 1) : trace[i].table = d[2] /\ trace[i].op \in ops
    /\ \A j \in 1..Len(trace) :
        trace[j].op = "create"
        => \A i \in 1..(j - 1) :
             trace[i].op = "create" => Position(trace[i].table) < Position(trace[j].table)

\* a run that created Products and took up its migration
C4_Witness ==
    /\ pc = "done"
    /\ HasEvent("create", Products)
    /\ \E k \in 1..Len(trace) : trace[k].table = Products /\ trace[k].op \in MigrateOps

----------------------------------------------------------------------------
\* C5: once a statement has changed the target, the baseline holds the source row
\* count of every table of the migration order, each counted before the first such
\* statement; and after a failed count query the run has ended with nothing
\* dropped, created or loaded.
C5_BaselineBeforeMutation ==
    /\ Mutated
       => /\ DOMAIN baseline_counts = Tables
          /\ \A t \in Tables :
                /\ baseline_counts[t] = SourceRows(t)
                /\ \E i \in 1..Len(trace) :
                      /\ trace[i] = event("count", t)
                      /\ \A j \in 1..Len(trace) : trace[j].op \in StatementOps => i < j
    /\ HasOp("count_error")
       => /\ pc = "raised"
          /\ ~ Mutated
          /\ txn.kind = "none" /\ pg_durable = txn.before /\ pg_work = pg_durable

\* the first DROP has run, over a source with rows
C5_Witness ==
    /\ pc = "create_build"
    /\ Mutated
    /\ \E t \in Tables : t \in DOMAIN baseline_counts /\ baseline_counts[t] > page_size

----------------------------------------------------------------------------
\* C6: no target table is dropped or created from a missing or zero-column schema,
\* and the run does not go on to build tables with an incomplete schema map.
C6_InspectionNeverMasked ==
    /\ \A k \in 1..Len(trace) :
        trace[k].op \in { "drop", "create" }
        => /\ trace[k].table \in DOMAIN table_shema
           /\ table_shema[trace[k].table] # << >>
    /\ pc \in { "create", "create_drop", "create_build", "create_execute",
                "create_commit", "test_extract", "test_transform", "test_load",
                "test_verify", "remaining", "done" }
       => DOMAIN table_shema = Tables

----------------------------------------------------------------------------
\* C7: the failure of a quality check never ends the run, and once the checks have
\* reported, each of the five has run.
C7_QualityCheckIsolation ==
    /\ LastOp = "check_error" => pc \in { "quality", "quality_report" }
    /\ report # "unset"
       => Cardinality({ k \in 1..Len(trace) : trace[k].op \in { "check", "check_error" } }) = 5

----------------------------------------------------------------------------
\* C8: what the open transaction has changed, and what any commit has made durable
\* since the work on the current table began, lies in that one table; the
\* statements a commit makes durable all belong to the table of that commit; and a
\* failed DROP or CREATE ends with the target as it was before that table's
\* materialization.
C8_TransactionScope ==
    /\ \A n \in PgTables :
        n # lower(txn.table) => pg_work[n] = txn.before[n] /\ pg_durable[n] = txn.before[n]
    /\ \A j \in 1..Len(trace) :
        trace[j].op = "commit"
        => \A i \in 1..(j - 1) :
             (trace[i].op \in StatementOps /\ trace[i].table # trace[j].table)
             => \E m \in (i + 1)..(j - 1) : trace[m].op = "commit"
    /\ LastOp \in { "drop_error", "create_error" }
       => pc = "raised" /\ pg_durable = txn.before /\ pg_work = txn.before

\* the create loop ended on a handled KeyError, and the load of Customers was
\* committed afterwards
C8_Witness ==
    /\ HasOp("lookup_error")
    /\ txn.kind = "load"
    /\ HasEvent("insert", test_table)
    /\ LastOp = "commit"

----------------------------------------------------------------------------
\* C9: the definition list has one entry per column, in order, with the lowercased
\* name; the first column is SERIAL PRIMARY KEY exactly when its name ends with
\* "id" (case-insensitive) and its source type is of the integer family; every
\* other column gets the mapped type of its lowercased source type, or TEXT.
IntegerFamily == { s_int, t_bigint, t_smallint, t_tinyint }

ClaimedDefinition(k, row) ==
    IF k = 1 /\ endswith(lower(row.COLUMN_NAME), s_id) /\ lower(row.DATA_TYPE) \in IntegerFamily
    THEN [name |-> lower(row.COLUMN_NAME), type |-> "SERIAL PRIMARY KEY"]
    ELSE [name |-> lower(row.COLUMN_NAME),
          type |-> IF lower(row.DATA_TYPE) \in DOMAIN type_mapping
                   THEN type_mapping[lower(row.DATA_TYPE)] ELSE "TEXT"]

C9_MaterializedColumnList ==
    pc = "create_execute"
    => LET schema == table_shema[tables_to_migrate[idx]] IN
       /\ Len(column_definitions) = Len(schema)
       /\ \A k \in 1..Len(schema) : column_definitions[k] = ClaimedDefinition(k, schema[k])
       /\ schema = << column(c_CustomerID, s_int), column(c_CustomerName, t_nvarchar) >>
          => column_definitions =
                << [name |-> lower(c_CustomerID), type |-> "SERIAL PRIMARY KEY"],
                   [name |-> lower(c_CustomerName), type |-> "VARCHAR"] >>

----------------------------------------------------------------------------
\* C10: each check that has run has added no finding when no source row violates
\* its predicate and exactly one finding, with the count K embedded, when K > 0
\* rows violate it; the findings stand in the order of the checks; and an empty
\* list of findings is reported as "no issues".
RECURSIVE SumOver(_, _)
SumOver(S, bag) ==
    IF S = {} THEN 0
    ELSE LET x == CHOOSE y \in S : TRUE IN bag[x] + SumOver(S \ { x }, bag)

\* the number of source rows that violate the predicate of check k
Violations(k) ==
    LET customers == src.rows[Customers]
        products  == src.rows[Products]
        suppliers == { sup.SupplierID : sup \in DOMAIN src.rows[Suppliers] } IN
    CASE k = 1 -> SumOver({ r \in DOMAIN customers : r.CustomerName = NULL }, customers)
      [] k = 2 -> SumOver({ r \in DOMAIN customers : r.email = Some(e_invalid) }, customers)
      [] k = 3 -> SumOver({ r \in DOMAIN products :
                              r.UnitPrice # NULL /\ r.UnitPrice[1] < 0 }, products)
      [] k = 4 -> SumOver({ r \in DOMAIN products :
                              r.StockQuantity # NULL /\ r.StockQuantity[1] < 0 }, products)
      [] k = 5 -> SumOver({ r \in DOMAIN products :
                              r.SupplierID = NULL \/ r.SupplierID[1] \notin suppliers },
                          products)

\* the number a finding's text shows, read back
RECURSIVE EmbeddedCount(_)
EmbeddedCount(text) ==
    IF text = << >> THEN 0
    ELSE LET c == text[Len(text)]
             front == SubSeq(text, 1, Len(text) - 1) IN
         IF c = "," THEN EmbeddedCount(front)
         ELSE 10 * EmbeddedCount(front) + (CHOOSE d \in 0..9 : DigitChars[d + 1] = c)

\* the checks that have run to their end
ChecksRun == Cardinality({ k \in 1..Len(trace) : trace[k].op = "check" })

FindingsOf(k) == { i \in 1..Len(quality_issues) : quality_issues[i].text = check_text(k) }

====
